---- MODULE Spec2Model ----
(***************************************************************************)
(* Model of bin/coverage_doctest.py: the doctest-coverage classifier       *)
(* (process_function, process_class, _is_indirect), the per-module scan    *)
(* coverage(), the tree walk go() and the scoring loop of __main__.        *)
(*                                                                         *)
(* Python strings are sequences of one-character strings, so that `in',    *)
(* startswith and endswith are computed on characters as Python does.      *)
(*                                                                         *)
(* Two specifications share the definitions:                               *)
(*   Spec    one call of coverage() on one imported module, one step per   *)
(*           iteration of its loops;                                       *)
(*   SpecGo  one run of __main__ over a file tree, one step per call or    *)
(*           loop iteration of go().                                       *)
(***************************************************************************)
EXTENDS Integers, Sequences, FiniteSets, TLC

(* ------------------------------ bounds --------------------------------- *)
MaxMembers == 2      \* names visible on the scanned module (Spec)
MaxMethods == 2      \* entries of a class's __dict__ (Spec)
MaxEntries == 2      \* entries of one directory (SpecGo)

(* ------------------------- string literals ----------------------------- *)
S_prompt == <<">", ">", ">">>
S_indirect == <<"i", "n", "d", "i", "r", "e", "c", "t", " ", "d", "o", "c", "t", "e", "s", "t">>
S_def == <<"d", "e", "f", " ">>
S_underscore == <<"_">>
S_abstractmethods == <<"_", "_", "a", "b", "s", "t", "r", "a", "c", "t", "m", "e", "t", "h", "o", "d", "s", "_", "_">>
S_space == <<" ">>
S_dot == <<".">>
S_slash == <<"/">>
S_py == <<".", "p", "y">>
S_pyx == <<".", "p", "y", "x">>
S_init_py == <<"_", "_", "i", "n", "i", "t", "_", "_", ".", "p", "y">>
S_test == <<"t", "e", "s", "t", "_">>
S_bench == <<"b", "e", "n", "c", "h", "_">>

(* --------------------- Python string operations ------------------------ *)
\* sub in s
Contains(sub, s) ==
    \E i \in 1..(Len(s) - Len(sub) + 1) : SubSeq(s, i, i + Len(sub) - 1) = sub

\* startswith comparing from the second character on
startswith_shifted(s, p) == Len(s) > Len(p) /\ SubSeq(s, 2, Len(p) + 1) = p

\* s.startswith(p)
startswith(s, p) == Len(s) >= Len(p) /\ SubSeq(s, 1, Len(p)) = p

\* s.endswith(p)
endswith(s, p) == Len(s) >= Len(p) /\ SubSeq(s, Len(s) - Len(p) + 1, Len(s)) = p

\* sep.join(parts)
RECURSIVE join(_, _)
join(sep, parts) ==
    IF parts = <<>> THEN <<>>
    ELSE IF Len(parts) = 1 THEN parts[1]
    ELSE parts[1] \o sep \o join(sep, Tail(parts))

\* truth value of obj.__doc__ : None and '' are both false
HasDoc(doc) == doc.has /\ doc.text # <<>>

(* ----------------------------- classifier ------------------------------ *)
\* _is_indirect with `or' in place of `and'
is_indirect_either(member, doc) ==
    LET d == Contains(member, doc)
        e == Contains(S_indirect, doc)
    IN  ~d \/ ~e

_is_indirect(member, doc) ==
    LET d == Contains(member, doc)
        e == Contains(S_indirect, doc)
    IN  ~d /\ ~e

skip_members == {S_abstractmethods}

\* getattr(b_obj, name) for an entry of the class's __dict__
getattr(b_obj, name) == CHOOSE e \in {b_obj.dict[k] : k \in DOMAIN b_obj.dict} : e.name = name

\* getsourcelines that never raises
getsourcelines_found(obj) == [ok |-> TRUE, source |-> obj.source, line_no |-> obj.line]

\* inspect.getsourcelines(obj): IOError when the source does not exist
getsourcelines(obj) == [ok |-> obj.src, source |-> obj.source, line_no |-> obj.line]

\* "LINE %d: %s" % (line_no, full_name); the signature that _get_arg_list
\* appends to the name is not modelled
Label(line_no, full_name) == [line |-> line_no, name |-> full_name]

process_function(name, c_name, b_obj, f_sk, f_md, f_mdt, f_idt, sk_list) ==
    LET isclass   == b_obj.kind = "class"
        obj       == IF isclass THEN getattr(b_obj, name) ELSE b_obj
        full_name == IF isclass THEN c_name \o S_dot \o name ELSE name
        private   == startswith(name, S_underscore)
        add_md    == ~private /\ ~HasDoc(obj.doc)
        add_mdt   == ~private /\ ~add_md /\ ~Contains(S_prompt, obj.doc.text)
        add_idt   == ~private /\ ~add_md /\ ~add_mdt /\ _is_indirect(name, obj.doc.text)
        f_doctest == ~private /\ ~add_md /\ ~add_mdt /\ ~add_idt
        function  == ~private
        gsl       == getsourcelines(obj)
        lbl       == Label(gsl.line_no, full_name)
        Ret(dt, f, sk, md, mdt, idt) ==
            [f_doctest |-> dt, function |-> f,
             f_sk |-> sk, f_md |-> md, f_mdt |-> mdt, f_idt |-> idt]
    IN  IF name \in sk_list THEN Ret(FALSE, FALSE, f_sk, f_md, f_mdt, f_idt)
        ELSE IF private THEN
            Ret(FALSE, FALSE, Append(f_sk, full_name), f_md, f_mdt, f_idt)
        ELSE IF add_md \/ add_mdt \/ add_idt THEN
            IF ~gsl.ok THEN Ret(FALSE, FALSE, f_sk, f_md, f_mdt, f_idt)
            ELSE IF add_md THEN Ret(f_doctest, function, f_sk, Append(f_md, lbl), f_mdt, f_idt)
            ELSE IF add_mdt THEN Ret(f_doctest, function, f_sk, f_md, Append(f_mdt, lbl), f_idt)
            ELSE Ret(f_doctest, function, f_sk, f_md, f_mdt, Append(f_idt, lbl))
        ELSE Ret(f_doctest, function, f_sk, f_md, f_mdt, f_idt)

process_class(c_name, obj, c_sk, c_md, c_mdt, c_idt, c_has_doctest) ==
    LET gsl == getsourcelines(obj)
        lbl == Label(gsl.line_no, c_name)
        Ret(dt, c, source, sk, md, mdt, idt, has) ==
            [c_dt |-> dt, c |-> c, source |-> source,
             c_sk |-> sk, c_md |-> md, c_mdt |-> mdt, c_idt |-> idt,
             c_has_doctest |-> has]
    IN  IF startswith(c_name, S_underscore) THEN
            Ret(FALSE, FALSE, <<>>, Append(c_sk, c_name), c_md, c_mdt, c_idt, c_has_doctest)
        ELSE IF ~gsl.ok THEN
            Ret(FALSE, FALSE, <<>>, c_sk, c_md, c_mdt, c_idt, c_has_doctest)
        ELSE IF ~HasDoc(obj.doc) THEN
            Ret(FALSE, TRUE, gsl.source, c_sk, Append(c_md, lbl), c_mdt, c_idt, c_has_doctest)
        ELSE IF ~Contains(S_prompt, obj.doc.text) THEN
            Ret(FALSE, TRUE, gsl.source, c_sk, c_md, Append(c_mdt, lbl), c_idt, c_has_doctest)
        ELSE IF _is_indirect(c_name, obj.doc.text) THEN
            Ret(FALSE, TRUE, gsl.source, c_sk, c_md, c_mdt, Append(c_idt, lbl), c_has_doctest)
        ELSE
            Ret(TRUE, TRUE, gsl.source, c_sk, c_md, c_mdt, c_idt, Append(c_has_doctest, lbl))

(* ------------------------------ coverage() ----------------------------- *)
\* the locals of coverage() after lines 316-332
CoverageLocals ==
    [c_skipped |-> <<>>, c_md |-> <<>>, c_mdt |-> <<>>, c_has_doctest |-> <<>>,
     c_idt |-> <<>>, classes |-> 0, c_doctests |-> 0,
     f_skipped |-> <<>>, f_md |-> <<>>, f_mdt |-> <<>>, f_has_doctest |-> <<>>,
     f_idt |-> <<>>, functions |-> 0, f_doctests |-> 0]

\* the ownership test without the comparison of the module names
NotPartOfModule_unnamed(obj, module_path) == ~obj.obj_mod.found

\* not obj_mod or not obj_mod.__name__ == module_path
NotPartOfModule(obj, module_path) ==
    ~obj.obj_mod.found \/ ~(obj.obj_mod.name = module_path)

IsFunctionOrMethod(obj) == obj.kind \in {"function", "method"}

\* the part of one iteration of `for member in m_members' that runs a
\* call of process_function and adds its result to the counters
CountFunction(st, r) ==
    [st EXCEPT !.f_skipped = r.f_sk, !.f_md = r.f_md, !.f_mdt = r.f_mdt,
               !.f_idt = r.f_idt,
               !.functions = IF r.function THEN @ + 1 ELSE @,
               !.f_doctests = IF r.f_doctest THEN @ + 1 ELSE @]

CountClass(st, r) ==
    [st EXCEPT !.c_skipped = r.c_sk, !.c_md = r.c_md, !.c_mdt = r.c_mdt,
               !.c_idt = r.c_idt, !.c_has_doctest = r.c_has_doctest,
               !.classes = IF r.c THEN @ + 1 ELSE @,
               !.c_doctests = IF r.c /\ r.c_dt THEN @ + 1 ELSE @]

\* one iteration of `for member in m_members' up to the loop over the
\* class's __dict__ ; scan is TRUE when that loop is entered
MemberBody(st, obj, module_path) ==
    LET Same == [st |-> st, scan |-> FALSE, source |-> <<>>]
    IN  IF obj.name \in skip_members THEN Same
        ELSE IF NotPartOfModule(obj, module_path) THEN Same
        ELSE IF IsFunctionOrMethod(obj) THEN
            LET r == process_function(obj.name, <<>>, obj, st.f_skipped, st.f_md,
                                      st.f_mdt, st.f_idt, skip_members)
            IN  [st |-> CountFunction(st, r), scan |-> FALSE, source |-> <<>>]
        ELSE IF obj.kind = "class" THEN
            LET r == process_class(obj.name, obj, st.c_skipped, st.c_md, st.c_mdt,
                                   st.c_idt, st.c_has_doctest)
            IN  [st |-> CountClass(st, r), scan |-> r.c, source |-> r.source]
        ELSE Same

\* ("def " + f_name) in ' '.join(source)
DefAppears(f_name, source) == Contains(S_def \o f_name, join(S_space, source))

\* one iteration of `for f_name in obj.__dict__'
MethodBody(st, obj, f_name, source, module_path) ==
    LET f_obj == getattr(obj, f_name)
    IN  IF f_name \in skip_members \/ startswith(f_name, S_underscore) THEN st
        ELSE IF ~DefAppears(f_name, source) THEN st
        ELSE IF NotPartOfModule(f_obj, module_path) THEN st
        ELSE IF IsFunctionOrMethod(f_obj) THEN
            CountFunction(st, process_function(f_name, obj.name, obj, st.f_skipped,
                              st.f_md, st.f_mdt, st.f_idt, skip_members))
        ELSE st

\* the score with 0 for a module without members
Score_zero(total_doctests, total_members) ==
    IF total_members # 0 THEN (100 * total_doctests) \div total_members ELSE 0

\* int(100 * float(total_doctests) / total_members), 100 for no members
Score(total_doctests, total_members) ==
    IF total_members # 0 THEN (100 * total_doctests) \div total_members ELSE 100

\* sorted(labels, key=line number): insertion sort, stable as Python's
RECURSIVE sorted(_)
sorted(labels) ==
    IF labels = <<>> THEN <<>>
    ELSE LET rest == sorted(SubSeq(labels, 1, Len(labels) - 1))
             x    == labels[Len(labels)]
             k    == Cardinality({i \in DOMAIN rest : rest[i].line <= x.line})
         IN  SubSeq(rest, 1, k) \o <<x>> \o SubSeq(rest, k + 1, Len(rest))

\* lines 399-419: the score, the sorted lists, the printed report
Report(module_path, st) ==
    LET total_doctests == st.c_doctests + st.f_doctests
        total_members  == st.classes + st.functions
    IN  [kind |-> "coverage", module |-> module_path,
         classes |-> st.classes, functions |-> st.functions,
         c_md |-> sorted(st.c_md), c_mdt |-> sorted(st.c_mdt), c_idt |-> sorted(st.c_idt),
         f_md |-> sorted(st.f_md), f_mdt |-> sorted(st.f_mdt), f_idt |-> sorted(st.f_idt),
         score |-> Score(total_doctests, total_members),
         total_doctests |-> total_doctests, total_members |-> total_members]

\* "%s could not be loaded due to %s." % (module_path, repr(a))
LoadError(module_path, a) == [kind |-> "load_error", module |-> module_path, reason |-> a]

RECURSIVE MethodLoop(_, _, _, _, _)
MethodLoop(st, obj, source, j, module_path) ==
    IF j > Len(obj.dict) THEN st
    ELSE MethodLoop(MethodBody(st, obj, obj.dict[j].name, source, module_path),
                    obj, source, j + 1, module_path)

RECURSIVE MemberLoop(_, _, _, _)
MemberLoop(st, m_members, i, module_path) ==
    IF i > Len(m_members) THEN st
    ELSE LET b == MemberBody(st, m_members[i], module_path)
             s == IF b.scan THEN MethodLoop(b.st, m_members[i], b.source, 1, module_path)
                  ELSE b.st
         IN  MemberLoop(s, m_members, i + 1, module_path)

\* coverage() without the return in the except branch
coverage_fallthrough(module_path, imp) ==
    LET st  == MemberLoop(CoverageLocals, imp.members, 1, module_path)
        rep == Report(module_path, st)
        err == IF imp.ok THEN <<>> ELSE <<LoadError(module_path, imp.reason)>>
    IN  [ret |-> <<rep.total_doctests, rep.total_members>>, out |-> err \o <<rep>>]

\* coverage(module_path) as one call: what it returns and what it prints;
\* imp is the outcome of __import__(module_path)
coverage(module_path, imp) ==
    IF ~imp.ok THEN [ret |-> <<0, 0>>, out |-> <<LoadError(module_path, imp.reason)>>]
    ELSE LET st  == MemberLoop(CoverageLocals, imp.members, 1, module_path)
             rep == Report(module_path, st)
         IN  [ret |-> <<rep.total_doctests, rep.total_members>>, out |-> <<rep>>]

(* --------------------- inputs of Spec: one module ---------------------- *)
N_Foo == <<"F", "o", "o">>
N_Priv == <<"_", "P", "r", "i", "v">>
N_add == <<"a", "d", "d">>
N_foo == <<"f", "o", "o">>
N_foobar == <<"f", "o", "o", "b", "a", "r">>
N_baz == <<"_", "b", "a", "z">>
N_m == <<"m">>
N_other == <<"o", "t", "h", "e", "r">>
T_adds == <<"A", "d", "d", "s", " ", "t", "w", "o", " ", "n", "u", "m", "b", "e", "r", "s", ".", "\n", "\n">>
T_call == <<"(", "1", ",", " ", "2", ")", "\n", "3", "\n">>
T_sub == <<">", ">", ">", " ", "s", "u", "b", "(", "2", ",", " ", "1", ")", "\n">>
T_near == <<">", ">", " ">>
T_hash == <<"#", " ">>
T_class == <<"c", "l", "a", "s", "s", " ">>
T_colon == <<":", "\n">>
T_self == <<"(", "s", "e", "l", "f", ")", ":", "\n">>
T_assign == <<" ", "=", " ", "h", "e", "l", "p", "e", "r", "\n">>
T_indent == <<" ", " ", " ", " ">>

module_path == N_m

NoDoc == [has |-> FALSE, text |-> <<>>]
Doc(text) == [has |-> TRUE, text |-> text]
\* """Adds two numbers.\n\n>>> add(1, 2)\n3\n""" for a member named n
ExampleDoc(n) == Doc(T_adds \o S_prompt \o S_space \o n \o T_call)

\* documentation texts tried for a member named n
Docs(n) ==
    { NoDoc,                                            \* __doc__ is None
      Doc(<<>>),                                        \* __doc__ is ''
      Doc(T_adds),                                      \* text, no '>>>'
      Doc(n \o T_call),                                 \* own name, no '>>>'
      Doc(T_near \o n \o T_call),                       \* '>> ' only
      ExampleDoc(n),                                    \* '>>>' and own name
      Doc(T_adds \o T_sub),                             \* '>>>', other name
      Doc(T_hash \o S_indirect \o <<"\n">> \o T_sub) }  \* '>>>', suppressed

Self  == [found |-> TRUE, name |-> module_path]
Other == [found |-> TRUE, name |-> N_other]
NoMod == [found |-> FALSE, name |-> <<>>]

\* an object reachable by getattr: name, kind, what inspect.getmodule and
\* inspect.getsourcelines give for it, and for a class its __dict__ ;
\* text is the line an entry of a class has in the class's source
Obj(name, kind, obj_mod, doc, src, line, text) ==
    [name |-> name, kind |-> kind, obj_mod |-> obj_mod, doc |-> doc, src |-> src,
     line |-> line, text |-> text, source |-> <<>>, dict |-> <<>>]

SourceLine(e) ==
    IF e.text = "def" THEN <<T_indent \o S_def \o e.name \o T_self>>
    ELSE IF e.text = "assign" THEN <<T_indent \o e.name \o T_assign>>
    ELSE <<>>

RECURSIVE BodyLines(_)
BodyLines(dict) ==
    IF dict = <<>> THEN <<>> ELSE SourceLine(Head(dict)) \o BodyLines(Tail(dict))

Class(name, obj_mod, doc, src, line, dict) ==
    [Obj(name, "class", obj_mod, doc, src, line, "def") EXCEPT
        !.dict = dict,
        !.source = <<T_class \o name \o T_colon>> \o BodyLines(dict)]

\* entries a class's __dict__ is drawn from
EntryPool ==
    { Obj(N_foo, "method", Self, d, s, 33, "def") : d \in {ExampleDoc(N_foo), NoDoc}, s \in BOOLEAN }
    \cup
    { Obj(N_foo, "method", Self, ExampleDoc(N_foo), TRUE, 12, "assign"),   \* foo = helper
      Obj(N_foo, "method", Other, ExampleDoc(N_foo), TRUE, 33, "def"),     \* wrapped elsewhere
      Obj(N_foo, "other", Self, ExampleDoc(N_foo), TRUE, 33, "def"),       \* not a function
      Obj(N_foo, "method", Self, ExampleDoc(N_foo), TRUE, 50, "none"),     \* attached later
      Obj(N_foobar, "method", Self, ExampleDoc(N_foobar), TRUE, 31, "def"),
      Obj(N_foobar, "function", Self, NoDoc, TRUE, 31, "def"),             \* staticmethod
      Obj(N_baz, "method", Self, ExampleDoc(N_baz), TRUE, 32, "def"),
      Obj(S_abstractmethods, "other", NoMod, NoDoc, FALSE, 0, "none") }

DistinctNames(s) == \A i, j \in DOMAIN s : i # j => s[i].name # s[j].name

Dicts ==
    { d \in UNION { [1..n -> EntryPool] : n \in 0..MaxMethods } : DistinctNames(d) }

Absent == Obj(<<>>, "absent", NoMod, NoDoc, FALSE, 0, "none")

\* dir(m) is sorted: 'Foo' < '_Priv' < '__abstractmethods__' < 'add'
FooVariants ==
    { Class(N_Foo, Self, d, s, 30, <<>>) : d \in Docs(N_Foo), s \in BOOLEAN }
    \cup { Class(N_Foo, Self, ExampleDoc(N_Foo), TRUE, 30, d) : d \in Dicts }
    \cup { Class(N_Foo, Self, NoDoc, FALSE, 30, <<Obj(N_foo, "method", Self, ExampleDoc(N_foo), TRUE, 33, "def")>>),
           Class(N_Foo, Other, ExampleDoc(N_Foo), TRUE, 30, <<>>) }

PrivVariants ==
    { Obj(N_Priv, "function", Self, ExampleDoc(N_Priv), TRUE, 20, "def"),
      Class(N_Priv, Self, ExampleDoc(N_Priv), TRUE, 20,
            <<Obj(N_foo, "method", Self, ExampleDoc(N_foo), TRUE, 33, "def")>>) }

AbstractVariants ==
    { Obj(S_abstractmethods, "function", Self, ExampleDoc(S_abstractmethods), TRUE, 40, "def") }

AddVariants ==
    { Obj(N_add, "function", Self, d, s, 10, "def") : d \in Docs(N_add), s \in BOOLEAN }
    \cup { Obj(N_add, "function", Other, ExampleDoc(N_add), TRUE, 10, "def"),
           Obj(N_add, "function", NoMod, ExampleDoc(N_add), TRUE, 10, "def"),
           Obj(N_add, "other", Self, ExampleDoc(N_add), TRUE, 10, "def") }

Present(t) == SelectSeq(t, LAMBDA o : o.kind # "absent")

\* the member lists of the modules tried
Modules ==
    { Present(t) : t \in
        { u \in (FooVariants \cup {Absent}) \X (PrivVariants \cup {Absent})
                \X (AbstractVariants \cup {Absent}) \X (AddVariants \cup {Absent}) :
            Len(Present(u)) <= MaxMembers } }

\* outcomes of __import__(module_path)
Imports ==
    { [ok |-> TRUE, reason |-> "", members |-> ms] : ms \in Modules }
    \cup { [ok |-> FALSE, reason |-> r, members |-> <<>>] : r \in {"ImportError", "SyntaxError"} }

(* ------------------------- get_mod_name, go() -------------------------- *)
\* index of the last occurrence of the character ch in s, 0 if none
LastIndex(ch, s) ==
    IF \E i \in DOMAIN s : s[i] = ch
    THEN CHOOSE i \in DOMAIN s : s[i] = ch /\ \A k \in DOMAIN s : s[k] = ch => k <= i
    ELSE 0

\* os.path.splitext(p)[0]: the extension starts at the last dot of the last
\* component, unless that component has only dots before it
splitext(p) ==
    LET sep == LastIndex("/", p)
        dot == LastIndex(".", p)
    IN  IF dot > sep /\ \E k \in (sep + 1)..(dot - 1) : p[k] # "."
        THEN SubSeq(p, 1, dot - 1)
        ELSE p

\* os.path.split(p) for a relative, normalised path: <<head, tail>>
split(p) ==
    LET i == LastIndex("/", p)
    IN  <<SubSeq(p, 1, i - 1), SubSeq(p, i + 1, Len(p))>>

\* the loop of lines 194-199
RECURSIVE file_module(_, _, _)
file_module(h, t, acc) ==
    IF h = <<>> /\ t = <<>> THEN acc
    ELSE LET acc1 == IF t # <<>> THEN t \o S_dot \o acc ELSE acc
         IN  file_module(split(h)[1], split(h)[2], acc1)

\* get_mod_name(path, base) for a path given relative to base
get_mod_name(path) ==
    LET rel_path == splitext(path)
        fm == file_module(split(rel_path)[1], split(rel_path)[2], <<>>)
    IN  SubSeq(fm, 1, Len(fm) - 1)

\* '%s/%s' % (file, F)
Path(file, F) == file \o S_slash \o F

\* lines 431-434: the file is not scanned
Filtered(file, exact) ==
    \/ ~(endswith(file, S_py) \/ endswith(file, S_pyx))
    \/ endswith(file, S_init_py)
    \/ (~exact /\ (Contains(S_test, file) \/ Contains(S_bench, file)))

\* a pending call go(sympy_top, file, exact=exact)
Call(file, exact) ==
    [file |-> file, exact |-> exact, phase |-> "call", todo |-> {},
     doctests |-> 0, num_functions |-> 0, children |-> <<>>]

\* line 427: the call made for the entry F of the directory file
ChildCall(file, F) == Call(Path(file, F), FALSE)

\* the accumulation without line 429
Accumulate_doctests(frame, val) == [frame EXCEPT !.doctests = @ + val[1]]

\* lines 428-429
Accumulate(frame, val) ==
    [frame EXCEPT !.doctests = @ + val[1], !.num_functions = @ + val[2]]

\* lines 474-478
TotalScore(doctests, num_functions) ==
    IF num_functions = 0 THEN 100 ELSE (100 * doctests) \div num_functions

(* ----------------- inputs of SpecGo: a tree of files ------------------- *)
P_pkg == <<"p", "k", "g">>
P_a == <<"a", ".", "p", "y">>
P_b == <<"b", ".", "p", "y">>
P_c == <<"c", ".", "p", "y", "x">>
P_test_a == <<"t", "e", "s", "t", "_", "a", ".", "p", "y">>
P_bench_b == <<"b", "e", "n", "c", "h", "_", "b", ".", "p", "y">>
P_notes == <<"n", "o", "t", "e", "s", ".", "t", "x", "t">>
P_sub == <<"s", "u", "b">>
P_test_sub == <<"t", "e", "s", "t", "_", "s", "u", "b">>
P_d == <<"d", ".", "p", "y">>
P_e == <<"e", ".", "p", "y">>
P_nosuch == <<"n", "o", "s", "u", "c", "h">>
P_nosuch_py == <<"n", "o", "s", "u", "c", "h", ".", "p", "y">>

PkgNames == {P_a, P_b, P_c, P_test_a, P_bench_b, S_init_py, P_notes, P_sub, P_test_sub}
SubNames == {P_d, S_init_py}
TestSubNames == {P_e}
AllNames == PkgNames \cup SubNames \cup TestSubNames

Bounded(S) == {E \in SUBSET S : Cardinality(E) <= MaxEntries}

D_sub == Path(P_pkg, P_sub)
D_test_sub == Path(P_pkg, P_test_sub)

\* the trees tried: the directory pkg with at most MaxEntries entries, and
\* the entries of its subdirectories sub and test_sub when it has them
Trees ==
    { [dirs  |-> {P_pkg} \cup {Path(P_pkg, F) : F \in E \cap {P_sub, P_test_sub}},
       files |-> {Path(P_pkg, F) : F \in E \ {P_sub, P_test_sub}}
                 \cup {Path(D_sub, F) : F \in Es}
                 \cup {Path(D_test_sub, F) : F \in Et}] :
        E \in Bounded(PkgNames),
        Es \in Bounded(SubNames), Et \in Bounded(TestSubNames) }

WellFormed(t) ==
    \A p \in t.files : \E d \in t.dirs : \E F \in AllNames : p = Path(d, F)

\* command lines tried
ArgPaths ==
    { P_pkg, D_sub, Path(P_pkg, P_a), Path(P_pkg, P_test_a), Path(P_pkg, S_init_py),
      Path(P_pkg, P_notes), Path(P_pkg, P_nosuch), Path(P_pkg, P_nosuch_py),
      Path(D_test_sub, P_e) }
ArgLists == { <<p>> : p \in ArgPaths } \cup { <<p, Path(P_pkg, P_b)>> : p \in ArgPaths }

Digit(k) == <<"0", "1", "2", "3", "4", "5", "6", "7", "8", "9">>[k + 1]
Fn(k) == <<"f", Digit(k)>>
Here(mod) == [found |-> TRUE, name |-> mod]

\* module contents: ModA has 9 of 10 functions with an example, ModB 0 of 1,
\* ModOne 1 of 1, ModScenario one function with an example and a class
\* without documentation
ModA(mod) ==
    [k \in 1..10 |->
        Obj(Fn(k - 1), "function", Here(mod),
            IF k = 10 THEN NoDoc ELSE ExampleDoc(Fn(k - 1)), TRUE, 10 * k, "def")]
ModB(mod) == <<Obj(N_add, "function", Here(mod), NoDoc, TRUE, 10, "def")>>
ModOne(mod) == <<Obj(N_add, "function", Here(mod), ExampleDoc(N_add), TRUE, 10, "def")>>
ModScenario(mod) ==
    <<Class(N_Foo, Here(mod), NoDoc, TRUE, 30, <<>>),
      Obj(N_add, "function", Here(mod), ExampleDoc(N_add), TRUE, 10, "def")>>

M_a == get_mod_name(Path(P_pkg, P_a))
M_b == get_mod_name(Path(P_pkg, P_b))
M_c == get_mod_name(Path(P_pkg, P_c))
M_d == get_mod_name(Path(D_sub, P_d))
M_test_a == get_mod_name(Path(P_pkg, P_test_a))

MembersOf(mod) ==
    IF mod = M_a THEN ModA(mod)
    ELSE IF mod = M_b THEN ModB(mod)
    ELSE IF mod \in {M_d, M_test_a} THEN ModScenario(mod)
    ELSE ModOne(mod)

\* sets of modules whose import raises
BrokenSets == { {}, {M_a}, {M_c}, {M_d} }

(* ------------------------------ state ---------------------------------- *)
VARIABLES
    imp,       \* Spec: outcome of the import of module_path
    pc,        \* Spec: position in coverage()
    st,        \* Spec: locals of coverage()
    mi,        \* Spec: index in m_members
    fj,        \* Spec: index in obj.__dict__
    source,    \* Spec: source lines of the class being scanned
    retval,    \* Spec: value returned by coverage()
    log,       \* Spec: what each loop iteration did to the counts and lists
    fs,        \* SpecGo: the directories and files that exist
    broken,    \* SpecGo: the modules whose import raises
    args,      \* SpecGo: the command line
    ai,        \* SpecGo: index of the argument being processed
    stack,     \* SpecGo: the active calls of go(), innermost last
    result,    \* SpecGo: what the outermost go() returned to __main__
    exitcode,  \* SpecGo: exit status, -1 while the process runs
    gpc,       \* SpecGo: position in __main__
    rets,      \* SpecGo: every return of go(): file, exact, value, children
    out        \* lines printed

covvars == <<imp, pc, st, mi, fj, source, retval, log>>
govars == <<fs, broken, args, ai, stack, result, exitcode, gpc, rets>>
vars == <<covvars, govars, out>>

\* what one iteration did: the change of the counters and the list that grew
Grew(st0, st1) ==
    IF Len(st1.c_skipped) > Len(st0.c_skipped) THEN "c_sk"
    ELSE IF Len(st1.c_md) > Len(st0.c_md) THEN "c_md"
    ELSE IF Len(st1.c_mdt) > Len(st0.c_mdt) THEN "c_mdt"
    ELSE IF Len(st1.c_idt) > Len(st0.c_idt) THEN "c_idt"
    ELSE IF Len(st1.c_has_doctest) > Len(st0.c_has_doctest) THEN "c_has"
    ELSE IF Len(st1.f_skipped) > Len(st0.f_skipped) THEN "f_sk"
    ELSE IF Len(st1.f_md) > Len(st0.f_md) THEN "f_md"
    ELSE IF Len(st1.f_mdt) > Len(st0.f_mdt) THEN "f_mdt"
    ELSE IF Len(st1.f_idt) > Len(st0.f_idt) THEN "f_idt"
    ELSE "none"

Observed(obj, cls, src, st0, st1, scan) ==
    [obj |-> obj, cls |-> cls, source |-> src,
     d_classes |-> st1.classes - st0.classes,
     d_functions |-> st1.functions - st0.functions,
     d_doctests |-> (st1.c_doctests + st1.f_doctests) - (st0.c_doctests + st0.f_doctests),
     listed |-> Grew(st0, st1), scan |-> scan]

CovIdle ==
    /\ imp = [ok |-> FALSE, reason |-> "", members |-> <<>>]
    /\ pc = "idle"
    /\ st = CoverageLocals
    /\ mi = 1
    /\ fj = 1
    /\ source = <<>>
    /\ retval = <<>>
    /\ log = <<>>

GoIdle ==
    /\ fs = [dirs |-> {}, files |-> {}]
    /\ broken = {}
    /\ args = <<>>
    /\ ai = 1
    /\ stack = <<>>
    /\ result = <<>>
    /\ exitcode = -1
    /\ gpc = "idle"
    /\ rets = <<>>

(* ----------------------- Spec: one call of coverage() ------------------ *)
Init ==
    /\ imp \in Imports
    /\ pc = "import"
    /\ st = CoverageLocals
    /\ mi = 1
    /\ fj = 1
    /\ source = <<>>
    /\ retval = <<>>
    /\ log = <<>>
    /\ out = <<>>
    /\ GoIdle

\* lines 307-310 and 316-335: the import succeeds
ImportOk ==
    /\ pc = "import"
    /\ imp.ok
    /\ pc' = "members"
    /\ st' = CoverageLocals
    /\ mi' = 1
    /\ UNCHANGED <<imp, fj, source, retval, log, out, govars>>

\* lines 311-314: the import raises
ImportFail ==
    /\ pc = "import"
    /\ ~imp.ok
    /\ out' = Append(out, LoadError(module_path, imp.reason))
    /\ retval' = <<0, 0>>
    /\ pc' = "done"
    /\ UNCHANGED <<imp, st, mi, fj, source, log, govars>>

\* lines 336-370: one name of dir(m)
NextMember ==
    /\ pc = "members"
    /\ mi <= Len(imp.members)
    /\ LET obj == imp.members[mi]
           b   == MemberBody(st, obj, module_path)
       IN  /\ st' = b.st
           /\ log' = Append(log, Observed(obj, <<>>, <<>>, st, b.st, b.scan))
           /\ IF b.scan /\ obj.dict # <<>>
              THEN pc' = "methods" /\ fj' = 1 /\ source' = b.source /\ mi' = mi
              ELSE pc' = "members" /\ mi' = mi + 1 /\ UNCHANGED <<fj, source>>
    /\ UNCHANGED <<imp, retval, out, govars>>

\* lines 373-397: one entry of the class's __dict__
NextMethod ==
    /\ pc = "methods"
    /\ LET obj == imp.members[mi]
           e   == obj.dict[fj]
           s1  == MethodBody(st, obj, e.name, source, module_path)
       IN  /\ st' = s1
           /\ log' = Append(log, Observed(e, obj.name, source, st, s1, FALSE))
           /\ IF fj < Len(obj.dict)
              THEN fj' = fj + 1 /\ UNCHANGED <<pc, mi>>
              ELSE pc' = "members" /\ mi' = mi + 1 /\ fj' = 1
    /\ UNCHANGED <<imp, source, retval, out, govars>>

\* lines 399-419: score, sorted lists, report, return
Finish ==
    /\ pc = "members"
    /\ mi > Len(imp.members)
    /\ LET rep == Report(module_path, st)
       IN  /\ out' = Append(out, rep)
           /\ retval' = <<rep.total_doctests, rep.total_members>>
    /\ pc' = "done"
    /\ UNCHANGED <<imp, st, mi, fj, source, log, govars>>

Next == ImportOk \/ ImportFail \/ NextMember \/ NextMethod \/ Finish

Spec == Init /\ [][Next]_vars

(* ------------------------ SpecGo: one run of __main__ ------------------ *)
isdir(file) == file \in fs.dirs
exists(file) == file \in fs.dirs \cup fs.files
listdir(file) == {F \in AllNames : exists(Path(file, F))}

\* __import__(module_path) in the run
Import(mod) ==
    IF mod \in broken THEN [ok |-> FALSE, reason |-> "ImportError", members |-> <<>>]
    ELSE [ok |-> TRUE, reason |-> "", members |-> MembersOf(mod)]

InitGo ==
    /\ fs \in {t \in Trees : WellFormed(t)}
    /\ broken \in BrokenSets
    /\ args \in ArgLists
    /\ ai = 1
    /\ stack = <<>>
    /\ result = <<>>
    /\ exitcode = -1
    /\ gpc = "main"
    /\ rets = <<>>
    /\ out = <<>>
    /\ CovIdle

Top == stack[Len(stack)]
Below == SubSeq(stack, 1, Len(stack) - 1)

\* the innermost call returns val, having printed what `printed' holds:
\* to the loop of the calling go(), or to __main__
Return(val, printed) ==
    LET ev == [file |-> Top.file, exact |-> Top.exact, val |-> val,
               children |-> Top.children, printed |-> printed]
    IN  /\ rets' = Append(rets, ev)
        /\ out' = out \o printed
        /\ IF Below = <<>>
           THEN /\ stack' = <<>>
                /\ result' = val
                /\ gpc' = "score"
           ELSE /\ stack' = [Below EXCEPT ![Len(Below)] =
                               [Accumulate(@, val) EXCEPT !.children = Append(@, ev)]]
                /\ UNCHANGED <<result, gpc>>
        /\ UNCHANGED <<fs, broken, args, ai, exitcode, covvars>>

\* lines 468-473: the next argument, go() called with exact=True
MainCall ==
    /\ gpc = "main"
    /\ ai <= Len(args)
    /\ stack' = <<Call(args[ai], TRUE)>>
    /\ gpc' = "go"
    /\ out' = Append(out, [kind |-> "header", file |-> args[ai]])
    /\ UNCHANGED <<fs, broken, args, ai, result, exitcode, rets, covvars>>

\* lines 424-425: the path is a directory
GoEnterDir ==
    /\ gpc = "go"
    /\ Top.phase = "call"
    /\ isdir(Top.file)
    /\ stack' = [stack EXCEPT ![Len(stack)] =
                    [@ EXCEPT !.phase = "loop", !.todo = listdir(Top.file)]]
    /\ UNCHANGED <<fs, broken, args, ai, result, exitcode, gpc, rets, out, covvars>>

\* lines 426-427: the next entry, in the order os.listdir happens to give
GoRecurse ==
    /\ gpc = "go"
    /\ Top.phase = "loop"
    /\ \E F \in Top.todo :
          stack' = Append([stack EXCEPT ![Len(stack)].todo = @ \ {F}],
                          ChildCall(Top.file, F))
    /\ UNCHANGED <<fs, broken, args, ai, result, exitcode, gpc, rets, out, covvars>>

\* line 430
GoReturnDir ==
    /\ gpc = "go"
    /\ Top.phase = "loop"
    /\ Top.todo = {}
    /\ Return(<<Top.doctests, Top.num_functions>>, <<>>)

\* lines 431-434
GoFiltered ==
    /\ gpc = "go"
    /\ Top.phase = "call"
    /\ ~isdir(Top.file)
    /\ Filtered(Top.file, Top.exact)
    /\ Return(<<0, 0>>, <<>>)

\* lines 435-437: sys.exit(1) ends the process
GoNotExist ==
    /\ gpc = "go"
    /\ Top.phase = "call"
    /\ ~isdir(Top.file)
    /\ ~Filtered(Top.file, Top.exact)
    /\ ~exists(Top.file)
    /\ out' = Append(out, [kind |-> "not_exist", file |-> Top.file])
    /\ exitcode' = 1
    /\ gpc' = "exited"
    /\ stack' = <<>>
    /\ UNCHANGED <<fs, broken, args, ai, result, rets, covvars>>

\* line 440
GoCoverage ==
    /\ gpc = "go"
    /\ Top.phase = "call"
    /\ ~isdir(Top.file)
    /\ ~Filtered(Top.file, Top.exact)
    /\ exists(Top.file)
    /\ LET mod == get_mod_name(Top.file)
           r   == coverage(mod, Import(mod))
       IN  Return(r.ret, r.out)

\* lines 474-496: the total of one argument
MainScore ==
    /\ gpc = "score"
    /\ out' = Append(out, [kind |-> "total", module |-> get_mod_name(args[ai]),
                           score |-> TotalScore(result[1], result[2]),
                           doctests |-> result[1], num_functions |-> result[2]])
    /\ ai' = ai + 1
    /\ gpc' = "main"
    /\ UNCHANGED <<fs, broken, args, stack, result, exitcode, rets, covvars>>

\* the loop over the arguments ends, the process exits normally
MainExit ==
    /\ gpc = "main"
    /\ ai > Len(args)
    /\ gpc' = "finished"
    /\ exitcode' = 0
    /\ UNCHANGED <<fs, broken, args, ai, stack, result, rets, out, covvars>>

NextGo ==
    \/ MainCall \/ GoEnterDir \/ GoRecurse \/ GoReturnDir \/ GoFiltered
    \/ GoNotExist \/ GoCoverage \/ MainScore \/ MainExit

SpecGo == InitGo /\ [][NextGo]_vars

\* the steps of Spec end with what the one-call form of coverage() gives
StepsAgreeWithCall ==
    pc = "done" =>
        /\ retval = coverage(module_path, imp).ret
        /\ out = coverage(module_path, imp).out

(* ------------------- vocabulary of the properties ---------------------- *)
\* name.startswith('_'), stated on the first character
LeadingUnderscore(name) == name # <<>> /\ name[1] = "_"

\* the defining module is unknown or is not the module being scanned
Imported(obj, mod) == ~obj.obj_mod.found \/ obj.obj_mod.name # mod

\* the four-way rule as the documentation of the tool states it
Claimed(name, doc) ==
    IF ~doc.has \/ doc.text = <<>> THEN "MissingDoc"
    ELSE IF ~Contains(S_prompt, doc.text) THEN "MissingExample"
    ELSE IF ~Contains(name, doc.text) /\ ~Contains(S_indirect, doc.text)
         THEN "IndirectExample"
    ELSE "HasExample"

\* what an iteration recorded for its member
Result(e) ==
    IF e.listed \in {"c_md", "f_md"} THEN "MissingDoc"
    ELSE IF e.listed \in {"c_mdt", "f_mdt"} THEN "MissingExample"
    ELSE IF e.listed \in {"c_idt", "f_idt"} THEN "IndirectExample"
    ELSE IF e.d_doctests = 1 THEN "HasExample"
    ELSE IF e.listed \in {"c_sk", "f_sk"} THEN "Skipped"
    ELSE "None"

Callable(obj) == obj.kind \in {"function", "method"}

\* "def name(" occurs in the class's source
DefinedExactly(name, src) == Contains(S_def \o name \o <<"(">>, join(S_space, src))

\* the iteration is about a function, method or class of the scanned module
IsMember(e) ==
    /\ ~Imported(e.obj, module_path)
    /\ IF e.cls = <<>> THEN Callable(e.obj) \/ e.obj.kind = "class"
       ELSE Callable(e.obj) /\ DefAppears(e.obj.name, e.source)

Entries == {log[i] : i \in DOMAIN log}
Untouched(e) ==
    e.d_classes = 0 /\ e.d_functions = 0 /\ e.d_doctests = 0 /\ e.listed = "none" /\ ~e.scan

\* the class of the module with this name
ClassNamed(c) == CHOOSE o \in {imp.members[k] : k \in DOMAIN imp.members} : o.name = c

Locatable(e) ==
    e.obj.src \/ (Callable(e.obj) /\ Claimed(e.obj.name, e.obj.doc) = "HasExample")

C2_PrivateSkipped ==
    /\ \A e \in Entries :
          LeadingUnderscore(e.obj.name)
             => /\ e.d_classes = 0 /\ e.d_functions = 0 /\ e.d_doctests = 0
                /\ e.listed \in {"c_sk", "f_sk", "none"}
                /\ ~e.scan
                /\ (e.cls = <<>> /\ ~Imported(e.obj, module_path)
                    /\ e.obj.name \notin skip_members
                    /\ (Callable(e.obj) \/ e.obj.kind = "class")
                       => e.listed \in {"c_sk", "f_sk"})
    /\ \A e \in Entries : e.cls # <<>> => ~LeadingUnderscore(e.cls)
    /\ pc = "methods" => ~LeadingUnderscore(imp.members[mi].name)

C2_Witness ==
    /\ pc = "done"
    /\ \E e \in Entries : e.obj.name = N_Priv /\ e.obj.kind = "class" /\ e.obj.dict # <<>>
    /\ \E e \in Entries : e.obj.name = N_baz /\ e.cls = N_Foo

Unlocated(e) == IsMember(e) /\ ~LeadingUnderscore(e.obj.name) /\ ~e.obj.src
Deficient(e) ==
    Claimed(e.obj.name, e.obj.doc) \in {"MissingDoc", "MissingExample", "IndirectExample"}

C3_ClassDropped ==
    /\ \A e \in Entries :
          Unlocated(e) /\ e.obj.kind = "class" => Untouched(e)
    /\ \A e \in Entries : e.cls # <<>> => ClassNamed(e.cls).src

ScenarioMembers ==
    <<Class(N_Foo, Self, NoDoc, TRUE, 30, <<>>),
      Obj(N_add, "function", Self, ExampleDoc(N_add), TRUE, 10, "def")>>

HasExampleCount == Cardinality({i \in DOMAIN log : Result(log[i]) = "HasExample"})
ClassCount == Cardinality({i \in DOMAIN log : log[i].d_classes = 1})
FunctionCount == Cardinality({i \in DOMAIN log : log[i].d_functions = 1})

(* ------------------------------------------------------------------------ *)
(* C7: the score that coverage() reports is 100 * has_example_count /       *)
(* (class_count + function_count) truncated to an integer, 100 when the     *)
(* denominator is zero, with 0 <= has_example_count <= class_count +        *)
(* function_count and 0 <= score <= 100; one public function documented     *)
(* with '>>> add(1, 2)' and one public class Foo without documentation give *)
(* functions=1, classes=1, doctests=1, score=50.                            *)
(* ------------------------------------------------------------------------ *)
C7_Score ==
    pc = "done" /\ imp.ok =>
        LET rep == out[Len(out)]
            n   == ClassCount + FunctionCount
        IN  /\ rep.kind = "coverage"
            /\ rep.classes = ClassCount /\ rep.functions = FunctionCount
            /\ rep.total_doctests = HasExampleCount
            /\ retval = <<HasExampleCount, n>>
            /\ 0 <= HasExampleCount /\ HasExampleCount <= n
            /\ rep.score \in 0..100
            /\ IF n = 0 THEN rep.score = 100
               ELSE /\ rep.score * n <= 100 * HasExampleCount
                    /\ 100 * HasExampleCount < (rep.score + 1) * n
            /\ imp.members = ScenarioMembers
                  => /\ rep.functions = 1 /\ rep.classes = 1
                     /\ rep.total_doctests = 1 /\ rep.score = 50

C7_Witness ==
    /\ pc = "done" /\ imp.ok /\ imp.members = ScenarioMembers
    /\ out[Len(out)].score = 50

(* ------------------------------------------------------------------------ *)
(* C8: a name whose defining module is unknown or is not the scanned module *)
(* is never counted or classified; a module whose members are all imported  *)
(* from elsewhere reports zero classes, zero functions and a score of 100.  *)
(* ------------------------------------------------------------------------ *)
C8_ImportedSkipped ==
    /\ \A e \in Entries : Imported(e.obj, module_path) => Untouched(e)
    /\ pc = "done" /\ imp.ok
       /\ (\A k \in DOMAIN imp.members : Imported(imp.members[k], module_path))
          => LET rep == out[Len(out)]
             IN  rep.classes = 0 /\ rep.functions = 0 /\ rep.score = 100
                 /\ retval = <<0, 0>>

C8_Witness ==
    /\ pc = "done" /\ imp.ok /\ Len(imp.members) = 2
    /\ \A k \in DOMAIN imp.members :
          Imported(imp.members[k], module_path) /\ imp.members[k].obj_mod.found
    /\ out[Len(out)].score = 100

(* ------------------------------------------------------------------------ *)
(* C10: an entry of a counted class's __dict__ adds to the function count   *)
(* or the doctest count only if its name is non-private and not excluded,   *)
(* the class's source holds a definition of exactly that method name, it is *)
(* attributed to the scanned module, and it is a function or method.        *)
(* ------------------------------------------------------------------------ *)
C10_MethodGates ==
    \A e \in Entries :
        e.cls # <<>> /\ (e.d_functions # 0 \/ e.d_doctests # 0)
           => /\ ~LeadingUnderscore(e.obj.name)
              /\ e.obj.name \notin skip_members
              /\ DefinedExactly(e.obj.name, e.source)
              /\ ~Imported(e.obj, module_path)
              /\ Callable(e.obj)

Ended == gpc \in {"exited", "finished"}
Printed == {out[i] : i \in DOMAIN out}
MissingArgs == {i \in DOMAIN args : ~exists(args[i])}

(* ------------------------------------------------------------------------ *)
(* C4: when an explicitly named path does not exist the run prints a        *)
(* diagnostic and ends with exit code 1, whatever the path's name or        *)
(* extension; every other run ends with exit code 0.                        *)
(* ------------------------------------------------------------------------ *)
C4_ExitCode ==
    Ended =>
        IF MissingArgs # {}
        THEN /\ exitcode = 1
             /\ \E i \in MissingArgs : [kind |-> "not_exist", file |-> args[i]] \in Printed
        ELSE exitcode = 0

Returns == {rets[i] : i \in DOMAIN rets}
FileReturns == {ev \in Returns : ~isdir(ev.file)}
basename(file) == SubSeq(file, LastIndex("/", file) + 1, Len(file))
HasMarker(name) == Contains(S_test, name) \/ Contains(S_bench, name)
SourceFile(name) == (endswith(name, S_py) \/ endswith(name, S_pyx)) /\ name # S_init_py
Scanned(ev) == ev.printed # <<>>

(* ------------------------------------------------------------------------ *)
(* C5: a file whose name has 'test_' or 'bench_' in it contributes (0,0)    *)
(* when reached by directory recursion and is scanned when named            *)
(* explicitly; a file whose own name has no such marker and ends in '.py'   *)
(* or '.pyx' is scanned in both modes; '__init__.py' is scanned in neither. *)
(* ------------------------------------------------------------------------ *)
C5_FileFilter ==
    \A ev \in FileReturns :
        LET name == basename(ev.file)
        IN  /\ HasMarker(name) /\ ~ev.exact => ev.val = <<0, 0>> /\ ~Scanned(ev)
            /\ HasMarker(name) /\ SourceFile(name) /\ ev.exact => Scanned(ev)
            /\ ~HasMarker(name) /\ SourceFile(name) => Scanned(ev)
            /\ name = S_init_py => ~Scanned(ev) /\ ev.val = <<0, 0>>

RECURSIVE SumOf(_, _)
SumOf(evs, k) == IF evs = <<>> THEN 0 ELSE Head(evs).val[k] + SumOf(Tail(evs), k)

\* what a file reached by recursion is worth, whatever the order
FileValue(p) ==
    IF Filtered(p, FALSE) THEN <<0, 0>>
    ELSE coverage(get_mod_name(p), Import(get_mod_name(p))).ret

RECURSIVE SumFiles(_, _)
SumFiles(ps, k) ==
    IF ps = {} THEN 0
    ELSE LET p == CHOOSE q \in ps : TRUE IN FileValue(p)[k] + SumFiles(ps \ {p}, k)

Under(dir) == {p \in fs.files : startswith(p, dir \o S_slash)}

DirReturns == {ev \in Returns : isdir(ev.file)}
ChildrenComplete(ev) ==
    /\ Len(ev.children) = Cardinality(listdir(ev.file))
    /\ {ev.children[i].file : i \in DOMAIN ev.children}
          = {Path(ev.file, F) : F \in listdir(ev.file)}

(* ------------------------------------------------------------------------ *)
(* C6: go() over a directory returns the element-wise sum of what go()      *)
(* returns for each of its immediate entries called with exact=false,       *)
(* whatever the listing order; the total score is trunc(100 * doctests /    *)
(* members) of the summed counts, 100 for no members (9/10 and 0/1 give     *)
(* 9/11 = 81).                                                              *)
(* ------------------------------------------------------------------------ *)
C6_DirectorySum ==
    /\ \A ev \in DirReturns :
          /\ ChildrenComplete(ev)
          /\ \A i \in DOMAIN ev.children : ev.children[i].exact = FALSE
          /\ ev.val = <<SumOf(ev.children, 1), SumOf(ev.children, 2)>>
          /\ ev.val = <<SumFiles(Under(ev.file), 1), SumFiles(Under(ev.file), 2)>>
    /\ gpc \in {"main", "finished"} /\ ai > 1 =>
          LET tot == out[Len(out)]
              d   == rets[Len(rets)].val[1]
              n   == rets[Len(rets)].val[2]
          IN  /\ tot.kind = "total" /\ tot.doctests = d /\ tot.num_functions = n
              /\ IF n = 0 THEN tot.score = 100
                 ELSE tot.score * n <= 100 * d /\ 100 * d < (tot.score + 1) * n
              /\ (d = 9 /\ n = 11 => tot.score = 81)

C6_Witness ==
    /\ gpc = "main" /\ ai = 2 /\ args[1] = P_pkg
    /\ listdir(P_pkg) = {P_a, P_b}
    /\ out[Len(out)].kind = "total" /\ out[Len(out)].score = 81
    /\ rets[Len(rets)].val = <<9, 11>>

FailedImport(ev) == ~isdir(ev.file) /\ Scanned(ev) /\ get_mod_name(ev.file) \in broken
M_pkg_a == <<"p", "k", "g", ".", "a">>
M_pkg_sub_d == <<"p", "k", "g", ".", "s", "u", "b", ".", "d">>
ModuleNamed(file) ==
    IF file = Path(P_pkg, P_a) THEN M_pkg_a
    ELSE IF file = Path(D_sub, P_d) THEN M_pkg_sub_d
    ELSE get_mod_name(file)

(* ------------------------------------------------------------------------ *)
(* C9: a module whose import fails contributes (0, 0) and one diagnostic    *)
(* line naming the module and the reason, and never aborts the scan: every  *)
(* entry of the directory listed after it is still visited and added.       *)
(* ------------------------------------------------------------------------ *)
C9_ImportFailure ==
    /\ \A ev \in Returns :
          FailedImport(ev) =>
             /\ ev.val = <<0, 0>>
             /\ ev.printed = <<[kind |-> "load_error", module |-> ModuleNamed(ev.file),
                                reason |-> "ImportError"]>>
    /\ \A ev \in DirReturns :
          /\ ChildrenComplete(ev)
          /\ ev.val = <<SumOf(ev.children, 1), SumOf(ev.children, 2)>>
    /\ gpc = "exited" => out[Len(out)].kind = "not_exist" /\ ~exists(out[Len(out)].file)
    /\ \A i \in DOMAIN stack :
          stack[i].phase = "loop" =>
             \A k \in DOMAIN stack[i].children :
                FailedImport(stack[i].children[k]) => gpc = "go"

C9_Witness ==
    \E ev \in DirReturns :
        \E i, k \in DOMAIN ev.children :
            /\ i < k
            /\ FailedImport(ev.children[i])
            /\ ev.children[k].val # <<0, 0>>
            /\ ev.val = ev.children[k].val

====
